---------------------------- MODULE Spec2Model ----------------------------
(***************************************************************************)
(* Hall-Booking-API (src/server.js): an Express server over two MongoDB    *)
(* collections, rooms and bookings.  Every request handler is an async     *)
(* function; the code between two awaits runs to completion, and each      *)
(* awaited store call is one atomic step of the store.  An action of this  *)
(* module is "the awaited store call of request r returns (or throws) and  *)
(* the handler runs on to its next await or to its response".              *)
(***************************************************************************)
EXTENDS Integers, Sequences, FiniteSets

(***************************************************************************)
(* Bounds of the model.                                                    *)
(***************************************************************************)
MaxReq == 3      \* requests of a concurrent run
MaxSeqReq == 4   \* requests of a sequential run
MaxTime == 2     \* start and end range over 0..MaxTime

Reqs == 1..MaxReq
Times == 0..MaxTime
RoomIds == <<"R1", "R2">>
RoomNames == <<"Hall A", "Hall B">>
Dates == <<"2024-01-01", "2024-01-02">>
Customers == <<"Alice", "Bob">>
Statuses == {"Booked"}

Range(s) == {s[i] : i \in 1..Len(s)}

(***************************************************************************)
(* Request bodies, as the clients send them.                               *)
(***************************************************************************)
RoomBodies == [roomId : Range(RoomIds), name : Range(RoomNames)]
BookingBodies ==
    [roomId : Range(RoomIds), date : Range(Dates), start : Times, end : Times,
     customerName : Range(Customers), status : Statuses]
\* what reading an attribute the body does not have gives
Undefined == "undefined"
\* the rooms of a sequential run: roomId or name may be missing
SeqRoomBodies ==
    [roomId : Range(RoomIds) \cup {Undefined},
     name : Range(RoomNames) \cup {Undefined}]
\* the bookings of a sequential run: one date, one customer
SeqBookingBodies ==
    {b \in BookingBodies : b.date = Dates[1] /\ b.customerName = Customers[1]}

Null == [null |-> TRUE]
NoBody == [none |-> TRUE]

VARIABLES
    conn,       \* "connecting" | "connected" | "failed": connectToMongo
    rooms,      \* the rooms collection, in insertion order
    bookings,   \* the bookings collection, in insertion order
    op,         \* op[r]: the route request r came in on ("none": not yet received)
    pc,         \* pc[r]: the await request r is suspended at, or "done"
    body,       \* body[r]: req.body / req.params of request r
    outer,      \* outer[r]: the array the handler's outer loop iterates over
    idx,        \* idx[r]: position of the outer loop in outer[r]
    result,     \* result[r]: the result array built so far / the body sent
    code        \* code[r]: HTTP status sent (0: no response yet)

vars == <<conn, rooms, bookings, op, pc, body, outer, idx, result, code>>

(***************************************************************************)
(* The store: insertOne appends the document with a generated _id,         *)
(* find(filter).toArray() returns the matching documents in insertion      *)
(* order, findOne the first of them or null.                               *)
(***************************************************************************)
\* an upsert keyed by roomId: a record of equal roomId is overwritten
InsertOneUpsert(coll, doc) ==
    IF \E i \in 1..Len(coll) : coll[i].doc.roomId = doc.roomId
    THEN [i \in 1..Len(coll) |->
             IF coll[i].doc.roomId = doc.roomId
             THEN [id |-> coll[i].id, doc |-> doc] ELSE coll[i]]
    ELSE Append(coll, [id |-> Len(coll) + 1, doc |-> doc])

\* collection.insertOne(doc)
InsertOne(coll, doc) ==
    Append(coll, [id |-> Len(coll) + 1, doc |-> doc])

\* the conflict filter without its date clause
ConflictMatchAnyDate(q, b) ==
    /\ b.doc.roomId = q.roomId
    /\ \/ b.doc.start <= q.start /\ b.doc.end >= q.start
       \/ b.doc.start <= q.end /\ b.doc.end >= q.end
       \/ b.doc.start >= q.start /\ b.doc.end <= q.end

\* the conflict filter with exclusive bounds ($lt, $gt)
ConflictMatchExclusive(q, b) ==
    /\ b.doc.roomId = q.roomId
    /\ b.doc.date = q.date
    /\ \/ b.doc.start < q.start /\ b.doc.end > q.start
       \/ b.doc.start < q.end /\ b.doc.end > q.end
       \/ b.doc.start >= q.start /\ b.doc.end <= q.end

\* the conflict filter without its third clause (request contains booking)
ConflictMatchNoContain(q, b) ==
    /\ b.doc.roomId = q.roomId
    /\ b.doc.date = q.date
    /\ \/ b.doc.start <= q.start /\ b.doc.end >= q.start
       \/ b.doc.start <= q.end /\ b.doc.end >= q.end

\* the filter of the conflict query (roomId, date, $or of three clauses),
\* evaluated on one stored booking b for the request body q
ConflictMatch(q, b) ==
    /\ b.doc.roomId = q.roomId
    /\ b.doc.date = q.date
    /\ \/ b.doc.start <= q.start /\ b.doc.end >= q.start
       \/ b.doc.start <= q.end /\ b.doc.end >= q.end
       \/ b.doc.start >= q.start /\ b.doc.end <= q.end

\* bookingsCollection.findOne({...}): the first match, or null
FindOneConflict(coll, q) ==
    LET m == SelectSeq(coll, LAMBDA b : ConflictMatch(q, b))
    IN  IF m = <<>> THEN Null ELSE Head(m)

\* every booking, whatever its roomId
BookingsOfRoomAny(coll, room) == coll

\* bookingsCollection.find({ roomId: room.roomId }).toArray()
BookingsOfRoom(coll, room) ==
    SelectSeq(coll, LAMBDA b : b.doc.roomId = room.doc.roomId)

\* every room, whatever its roomId
RoomsOfBookingAny(coll, booking) == coll

\* roomsCollection.find({ roomId: booking.roomId }).toArray()
RoomsOfBooking(coll, booking) ==
    SelectSeq(coll, LAMBDA rm : rm.doc.roomId = booking.doc.roomId)

\* bookingsCollection.find({ customerName: name }).toArray()
BookingsOfCustomer(coll, name) ==
    SelectSeq(coll, LAMBDA b : b.doc.customerName = name)

(***************************************************************************)
(* Rows of the three reports.                                              *)
(***************************************************************************)
RoomBookingRow(room, booking) ==
    [roomName |-> room.doc.name,
     roomId |-> room.doc.roomId,
     bookedStatus |-> booking.doc.status,
     customerName |-> booking.doc.customerName,
     date |-> booking.doc.date,
     startTime |-> booking.doc.start,
     endTime |-> booking.doc.end]

CustomerBookingRow(booking, room) ==
    [customerName |-> booking.doc.customerName,
     roomName |-> room.doc.name,
     date |-> booking.doc.date,
     startTime |-> booking.doc.start,
     endTime |-> booking.doc.end]

HistoryRow(booking) ==
    [customerName |-> booking.doc.customerName,
     roomName |-> booking.doc.roomId,
     date |-> booking.doc.date,
     startTime |-> booking.doc.start,
     endTime |-> booking.doc.end,
     bookingId |-> booking.id,
     bookingDate |-> booking.doc.date,
     bookingStatus |-> booking.doc.status]

\* for (const booking of bookings) result.push({...})
RoomBookingRows(room, bs) ==
    [k \in 1..Len(bs) |-> RoomBookingRow(room, bs[k])]

\* for (const room of rooms) result.push({...})
CustomerBookingRows(booking, rs) ==
    [k \in 1..Len(rs) |-> CustomerBookingRow(booking, rs[k])]

\* customerBookings.map(booking => ({...}))
HistoryRows(bs) == [k \in 1..Len(bs) |-> HistoryRow(bs[k])]

\* the guard as a test for "no bookings"
FalsyWhenEmpty(array) == array = <<>>

\* !customerBookings: toArray() resolves to an array, and every array, the
\* empty one included, is truthy
Falsy(array) == FALSE

(***************************************************************************)
(* Initial state: the process has started, connectToMongo() is pending,    *)
(* the server listens, both collections are empty.                         *)
(***************************************************************************)
Init ==
    /\ conn = "connecting"
    /\ rooms = <<>>
    /\ bookings = <<>>
    /\ op = [r \in Reqs |-> "none"]
    /\ pc = [r \in Reqs |-> "none"]
    /\ body = [r \in Reqs |-> NoBody]
    /\ outer = [r \in Reqs |-> <<>>]
    /\ idx = [r \in Reqs |-> 0]
    /\ result = [r \in Reqs |-> <<>>]
    /\ code = [r \in Reqs |-> 0]

\* connectToMongo: client.connect() resolves and both handles are assigned
ConnectOk ==
    /\ conn = "connecting"
    /\ conn' = "connected"
    /\ UNCHANGED <<rooms, bookings, op, pc, body, outer, idx, result, code>>

\* connectToMongo: client.connect() rejects; the handles stay undefined
ConnectFail ==
    /\ conn = "connecting"
    /\ conn' = "failed"
    /\ UNCHANGED <<rooms, bookings, op, pc, body, outer, idx, result, code>>

\* the next request of the run arrives on slot r
Fresh(r) ==
    /\ op[r] = "none"
    /\ \A q \in DOMAIN op : q < r => op[q] # "none"

\* res.status(c).send/json(rows): the response of request r; the handler
\* returns and its locals are gone
Respond(r, c, rows) ==
    /\ pc' = [pc EXCEPT ![r] = "done"]
    /\ code' = [code EXCEPT ![r] = c]
    /\ result' = [result EXCEPT ![r] = rows]
    /\ outer' = [outer EXCEPT ![r] = <<>>]
    /\ idx' = [idx EXCEPT ![r] = 0]

\* Room ids, room names, dates and customer names are opaque to the code
\* (it only tests them for equality), so a run names the values in the order
\* it first uses them: value i of a list may be sent once value i-1 was.
InOrder(list, used, v) ==
    \A i \in 1..Len(list) :
        list[i] = v => \A j \in 1..(i - 1) : list[j] \in used

Sent(ops) == {r \in DOMAIN op : op[r] \in ops /\ body[r] # NoBody}
UsedRoomIds == {body[r].roomId : r \in Sent({"CreateRoom", "BookRoom"})}
UsedRoomNames == {body[r].name : r \in Sent({"CreateRoom"})}
UsedDates == {body[r].date : r \in Sent({"BookRoom"})}
UsedCustomers ==
    {body[r].customerName : r \in Sent({"BookRoom"})}
        \cup {body[r].name : r \in Sent({"GetCustomerHistory"})}

\* the handler goes on to its store call whatever the connection's state
ReceiveAwaitsConnection(r, o, b, label) ==
    /\ Fresh(r)
    /\ op' = [op EXCEPT ![r] = o]
    /\ pc' = [pc EXCEPT ![r] = label]
    /\ body' = [body EXCEPT ![r] = b]
    /\ UNCHANGED <<result, code, outer, idx>>
    /\ UNCHANGED <<conn, rooms, bookings>>

\* A request arrives on route o with body b and runs to its first await at
\* label.  With the collection handle still undefined the call throws a
\* TypeError inside the try block and the catch answers 500; nothing of the
\* request has been used then, and body[r] stays unset.
Receive(r, o, b, label) ==
    /\ Fresh(r)
    /\ op' = [op EXCEPT ![r] = o]
    /\ IF conn = "connected"
       THEN /\ pc' = [pc EXCEPT ![r] = label]
            /\ body' = [body EXCEPT ![r] = b]
            /\ UNCHANGED <<result, code, outer, idx>>
       ELSE /\ Respond(r, 500, <<>>)
            /\ UNCHANGED body
    /\ UNCHANGED <<conn, rooms, bookings>>

\* the insert is applied and the handler then runs into its catch
StoreCallFailsAfterWrite(r) ==
    /\ pc[r] \notin {"none", "done"}
    /\ Respond(r, 500, <<>>)
    /\ bookings' = IF pc[r] = "insertBooking"
                   THEN InsertOne(bookings, body[r]) ELSE bookings
    /\ rooms' = IF pc[r] = "insertRoom"
                THEN InsertOne(rooms, body[r]) ELSE rooms
    /\ UNCHANGED <<conn, op, body>>

\* an awaited store call of request r rejects: the catch answers 500
StoreCallFails(r) ==
    /\ pc[r] \notin {"none", "done"}
    /\ Respond(r, 500, <<>>)
    /\ UNCHANGED <<conn, rooms, bookings, op, body>>

(***************************************************************************)
(* POST /rooms                                                             *)
(***************************************************************************)
CreateRoomReceive(r, Bodies) ==
    /\ Fresh(r)
    /\ \E b \in Bodies :
        /\ InOrder(RoomIds, UsedRoomIds, b.roomId)
        /\ InOrder(RoomNames, UsedRoomNames, b.name)
        /\ Receive(r, "CreateRoom", b, "insertRoom")

\* the handler validates: a body without roomId or name, or with the roomId
\* of a stored room, is rejected
CreateRoomInsertValidated(r) ==
    /\ pc[r] = "insertRoom"
    /\ IF \/ body[r].roomId = Undefined
          \/ body[r].name = Undefined
          \/ \E i \in 1..Len(rooms) : rooms[i].doc.roomId = body[r].roomId
       THEN Respond(r, 400, <<>>) /\ rooms' = rooms
       ELSE rooms' = InsertOne(rooms, body[r]) /\ Respond(r, 201, <<>>)
    /\ UNCHANGED <<conn, bookings, op, body>>

\* insertOne(req.body) returns: the body is stored as sent, 201
CreateRoomInsert(r) ==
    /\ pc[r] = "insertRoom"
    /\ rooms' = InsertOne(rooms, body[r])
    /\ Respond(r, 201, <<>>)
    /\ UNCHANGED <<conn, bookings, op, body>>

(***************************************************************************)
(* POST /bookings                                                          *)
(***************************************************************************)
BookRoomReceive(r, Bodies) ==
    /\ Fresh(r)
    /\ \E b \in Bodies :
        /\ InOrder(RoomIds, UsedRoomIds, b.roomId)
        /\ InOrder(Dates, UsedDates, b.date)
        /\ InOrder(Customers, UsedCustomers, b.customerName)
        /\ Receive(r, "BookRoom", b, "findConflict")

\* the booking is inserted before the conflict is looked at
BookRoomFindStoresFirst(r) ==
    /\ pc[r] = "findConflict"
    /\ LET existingBooking == FindOneConflict(bookings, body[r])
       IN  IF existingBooking # Null
           THEN /\ Respond(r, 400, <<>>)
                /\ bookings' = InsertOne(bookings, body[r])
           ELSE /\ pc' = [pc EXCEPT ![r] = "insertBooking"]
                /\ UNCHANGED <<result, code, outer, idx, bookings>>
    /\ UNCHANGED <<conn, rooms, op, body>>

\* the handler first looks the room up and rejects a roomId no room has
BookRoomFindChecksRoom(r) ==
    /\ pc[r] = "findConflict"
    /\ LET existingBooking == FindOneConflict(bookings, body[r])
           room == SelectSeq(rooms, LAMBDA rm : rm.doc.roomId = body[r].roomId)
       IN  IF room = <<>> \/ existingBooking # Null
           THEN Respond(r, 400, <<>>)
           ELSE /\ pc' = [pc EXCEPT ![r] = "insertBooking"]
                /\ UNCHANGED <<result, code, outer, idx>>
    /\ UNCHANGED <<conn, rooms, bookings, op, body>>

\* findOne returns; a match answers 400, null goes on to insertOne
BookRoomFind(r) ==
    /\ pc[r] = "findConflict"
    /\ LET existingBooking == FindOneConflict(bookings, body[r])
       IN  IF existingBooking # Null
           THEN Respond(r, 400, <<>>)
           ELSE /\ pc' = [pc EXCEPT ![r] = "insertBooking"]
                /\ UNCHANGED <<result, code, outer, idx>>
    /\ UNCHANGED <<conn, rooms, bookings, op, body>>

\* a document built by the handler, with a status of its own, is stored
BookRoomInsertOwnStatus(r) ==
    /\ pc[r] = "insertBooking"
    /\ bookings' = InsertOne(bookings, [body[r] EXCEPT !.status = "Pending"])
    /\ Respond(r, 201, <<>>)
    /\ UNCHANGED <<conn, rooms, op, body>>

BookRoomInsert(r) ==
    /\ pc[r] = "insertBooking"
    /\ bookings' = InsertOne(bookings, body[r])
    /\ Respond(r, 201, <<>>)
    /\ UNCHANGED <<conn, rooms, op, body>>

(***************************************************************************)
(* GET /rooms/bookings                                                     *)
(***************************************************************************)
ListRoomBookingsReceive(r) ==
    Receive(r, "ListRoomBookings", NoBody, "findRooms")

\* the response is sent from inside the loop over the rooms: with no room
\* stored the handler returns without having answered
ListRoomBookingsRoomsSilent(r) ==
    /\ pc[r] = "findRooms"
    /\ IF rooms = <<>>
       THEN /\ pc' = [pc EXCEPT ![r] = "done"]
            /\ UNCHANGED <<result, code, outer, idx>>
       ELSE /\ pc' = [pc EXCEPT ![r] = "findBookingsOfRoom"]
            /\ outer' = [outer EXCEPT ![r] = rooms]
            /\ idx' = [idx EXCEPT ![r] = 1]
            /\ UNCHANGED <<result, code>>
    /\ UNCHANGED <<conn, rooms, bookings, op, body>>

\* roomsCollection.find().toArray() returns; the loop starts
ListRoomBookingsRooms(r) ==
    /\ pc[r] = "findRooms"
    /\ IF rooms = <<>>
       THEN Respond(r, 200, <<>>)
       ELSE /\ pc' = [pc EXCEPT ![r] = "findBookingsOfRoom"]
            /\ outer' = [outer EXCEPT ![r] = rooms]
            /\ idx' = [idx EXCEPT ![r] = 1]
            /\ UNCHANGED <<result, code>>
    /\ UNCHANGED <<conn, rooms, bookings, op, body>>

\* the bookings of room outer[r][idx[r]] return; their rows are pushed
ListRoomBookingsBookings(r) ==
    /\ pc[r] = "findBookingsOfRoom"
    /\ LET room == outer[r][idx[r]]
           rows == result[r] \o
                   RoomBookingRows(room, BookingsOfRoom(bookings, room))
       IN  IF idx[r] = Len(outer[r])
           THEN Respond(r, 200, rows)
           ELSE /\ result' = [result EXCEPT ![r] = rows]
                /\ idx' = [idx EXCEPT ![r] = idx[r] + 1]
                /\ UNCHANGED <<pc, code, outer>>
    /\ UNCHANGED <<conn, rooms, bookings, op, body>>

(***************************************************************************)
(* GET /customers/bookings                                                 *)
(***************************************************************************)
ListCustomerBookingsReceive(r) ==
    Receive(r, "ListCustomerBookings", NoBody, "findBookings")

ListCustomerBookingsBookings(r) ==
    /\ pc[r] = "findBookings"
    /\ IF bookings = <<>>
       THEN Respond(r, 200, <<>>)
       ELSE /\ pc' = [pc EXCEPT ![r] = "findRoomsOfBooking"]
            /\ outer' = [outer EXCEPT ![r] = bookings]
            /\ idx' = [idx EXCEPT ![r] = 1]
            /\ UNCHANGED <<result, code>>
    /\ UNCHANGED <<conn, rooms, bookings, op, body>>

ListCustomerBookingsRooms(r) ==
    /\ pc[r] = "findRoomsOfBooking"
    /\ LET booking == outer[r][idx[r]]
           rows == result[r] \o
                   CustomerBookingRows(booking, RoomsOfBooking(rooms, booking))
       IN  IF idx[r] = Len(outer[r])
           THEN Respond(r, 200, rows)
           ELSE /\ result' = [result EXCEPT ![r] = rows]
                /\ idx' = [idx EXCEPT ![r] = idx[r] + 1]
                /\ UNCHANGED <<pc, code, outer>>
    /\ UNCHANGED <<conn, rooms, bookings, op, body>>

(***************************************************************************)
(* GET /customers/:name                                                    *)
(***************************************************************************)
GetCustomerHistoryReceive(r, Names) ==
    /\ Fresh(r)
    /\ \E n \in Names :
        /\ InOrder(Customers, UsedCustomers, n)
        /\ Receive(r, "GetCustomerHistory", [name |-> n], "findCustomer")

\* the query is a find-and-delete: the bookings it returns leave the store
GetCustomerHistoryFindAndDelete(r) ==
    /\ pc[r] = "findCustomer"
    /\ LET customerBookings == BookingsOfCustomer(bookings, body[r].name)
       IN  /\ Respond(r, 200, HistoryRows(customerBookings))
           /\ bookings' = SelectSeq(bookings,
                              LAMBDA b : b.doc.customerName # body[r].name)
    /\ UNCHANGED <<conn, rooms, op, body>>


GetCustomerHistoryFind(r) ==
    /\ pc[r] = "findCustomer"
    /\ LET customerBookings == BookingsOfCustomer(bookings, body[r].name)
       IN  IF Falsy(customerBookings)
           THEN Respond(r, 404, <<>>)
           ELSE Respond(r, 200, HistoryRows(customerBookings))
    /\ UNCHANGED <<conn, rooms, bookings, op, body>>

\* the steps that resume a suspended handler whose store call resolved
Resume(r) ==
    \/ CreateRoomInsert(r)
    \/ BookRoomFind(r)
    \/ BookRoomInsert(r)
    \/ ListRoomBookingsRooms(r)
    \/ ListRoomBookingsBookings(r)
    \/ ListCustomerBookingsBookings(r)
    \/ ListCustomerBookingsRooms(r)
    \/ GetCustomerHistoryFind(r)

(***************************************************************************)
(* The server: requests arrive at any time and their handlers interleave   *)
(* at every await.                                                         *)
(***************************************************************************)
Next ==
    \/ ConnectOk
    \/ ConnectFail
    \/ \E r \in Reqs : CreateRoomReceive(r, RoomBodies)
    \/ \E r \in Reqs : BookRoomReceive(r, BookingBodies)
    \/ \E r \in Reqs : ListRoomBookingsReceive(r)
    \/ \E r \in Reqs : ListCustomerBookingsReceive(r)
    \/ \E r \in Reqs : GetCustomerHistoryReceive(r, Range(Customers))
    \/ \E r \in Reqs : Resume(r)
    \/ \E r \in Reqs : StoreCallFails(r)

Spec == Init /\ [][Next]_vars

(***************************************************************************)
(* Sequential execution against an available store: the connection is      *)
(* up, no store call fails, and a request arrives only when every earlier  *)
(* one has been answered.                                                  *)
(***************************************************************************)
SeqReqs == 1..MaxSeqReq

SeqInit ==
    /\ conn = "connected"
    /\ rooms = <<>>
    /\ bookings = <<>>
    /\ op = [r \in SeqReqs |-> "none"]
    /\ pc = [r \in SeqReqs |-> "none"]
    /\ body = [r \in SeqReqs |-> NoBody]
    /\ outer = [r \in SeqReqs |-> <<>>]
    /\ idx = [r \in SeqReqs |-> 0]
    /\ result = [r \in SeqReqs |-> <<>>]
    /\ code = [r \in SeqReqs |-> 0]

Quiet == \A q \in DOMAIN pc : pc[q] \in {"none", "done"}

SeqNext ==
    \/ Quiet /\ \E r \in SeqReqs : CreateRoomReceive(r, SeqRoomBodies)
    \/ Quiet /\ \E r \in SeqReqs : BookRoomReceive(r, SeqBookingBodies)
    \/ Quiet /\ \E r \in SeqReqs : ListRoomBookingsReceive(r)
    \/ Quiet /\ \E r \in SeqReqs : ListCustomerBookingsReceive(r)
    \/ Quiet /\ \E r \in SeqReqs : GetCustomerHistoryReceive(r, {Customers[1]})
    \/ \E r \in SeqReqs : Resume(r)

SeqSpec == SeqInit /\ [][SeqNext]_vars

(***************************************************************************)
(* Listings under concurrent writes, against an available store: up to     *)
(* MaxInFlight requests are being handled at a time, and their handlers    *)
(* interleave at every await.  Rooms differ in roomId only, bookings in    *)
(* roomId only; GET /customers/:name is not called.                        *)
(***************************************************************************)
MaxListReq == 5    \* requests of such a run
MaxInFlight == 2   \* requests in flight at a time

ListReqs == 1..MaxListReq
ListRoomBodies == {b \in RoomBodies : b.name = RoomNames[1]}
ListBookingBodies == {b \in SeqBookingBodies : b.start = 0 /\ b.end = 0}

ListInit ==
    /\ conn = "connected"
    /\ rooms = <<>>
    /\ bookings = <<>>
    /\ op = [r \in ListReqs |-> "none"]
    /\ pc = [r \in ListReqs |-> "none"]
    /\ body = [r \in ListReqs |-> NoBody]
    /\ outer = [r \in ListReqs |-> <<>>]
    /\ idx = [r \in ListReqs |-> 0]
    /\ result = [r \in ListReqs |-> <<>>]
    /\ code = [r \in ListReqs |-> 0]

InFlight == {r \in DOMAIN pc : pc[r] \notin {"none", "done"}}
Admits == Cardinality(InFlight) < MaxInFlight

ListNext ==
    \/ Admits /\ \E r \in ListReqs : CreateRoomReceive(r, ListRoomBodies)
    \/ Admits /\ \E r \in ListReqs : BookRoomReceive(r, ListBookingBodies)
    \/ Admits /\ \E r \in ListReqs : ListRoomBookingsReceive(r)
    \/ Admits /\ \E r \in ListReqs : ListCustomerBookingsReceive(r)
    \/ \E r \in ListReqs : CreateRoomInsert(r)
    \/ \E r \in ListReqs : BookRoomFind(r)
    \/ \E r \in ListReqs : BookRoomInsert(r)
    \/ \E r \in ListReqs : ListRoomBookingsRooms(r)
    \/ \E r \in ListReqs : ListRoomBookingsBookings(r)
    \/ \E r \in ListReqs : ListCustomerBookingsBookings(r)
    \/ \E r \in ListReqs : ListCustomerBookingsRooms(r)

ListSpec == ListInit /\ [][ListNext]_vars

(***************************************************************************)
(* The server with progress: every store call a handler awaits eventually  *)
(* returns or fails, and the event loop then runs the handler on, so a     *)
(* suspended handler does not stay suspended for ever.                     *)
(***************************************************************************)
MaxLiveReq == 2   \* requests of such a run

LiveReqs == 1..MaxLiveReq

LiveInit ==
    /\ conn = "connecting"
    /\ rooms = <<>>
    /\ bookings = <<>>
    /\ op = [r \in LiveReqs |-> "none"]
    /\ pc = [r \in LiveReqs |-> "none"]
    /\ body = [r \in LiveReqs |-> NoBody]
    /\ outer = [r \in LiveReqs |-> <<>>]
    /\ idx = [r \in LiveReqs |-> 0]
    /\ result = [r \in LiveReqs |-> <<>>]
    /\ code = [r \in LiveReqs |-> 0]

LiveNext ==
    \/ ConnectOk
    \/ ConnectFail
    \/ \E r \in LiveReqs : CreateRoomReceive(r, RoomBodies)
    \/ \E r \in LiveReqs : BookRoomReceive(r, BookingBodies)
    \/ \E r \in LiveReqs : ListRoomBookingsReceive(r)
    \/ \E r \in LiveReqs : ListCustomerBookingsReceive(r)
    \/ \E r \in LiveReqs : GetCustomerHistoryReceive(r, Range(Customers))
    \/ \E r \in LiveReqs : Resume(r)
    \/ \E r \in LiveReqs : StoreCallFails(r)

Progress == \A r \in LiveReqs : WF_vars(Resume(r) \/ StoreCallFails(r))

LiveSpec == LiveInit /\ [][LiveNext]_vars /\ Progress

(***************************************************************************)
(* Vocabulary of the properties.                                           *)
(***************************************************************************)
\* the overlap predicate of the specification, on request bodies or stored
\* documents: candidate against existing
IsOverlapping(candidate, existing) ==
    \/ existing.start <= candidate.start /\ candidate.start <= existing.end
    \/ existing.start <= candidate.end /\ candidate.end <= existing.end
    \/ candidate.start <= existing.start /\ candidate.end >= existing.end

SameSlot(a, b) == a.roomId = b.roomId /\ a.date = b.date

\* the BookRoom requests whose handler got as far as reading the request
BookReqs == {r \in DOMAIN op : op[r] = "BookRoom" /\ body[r] # NoBody}

\* request r is answered in this step
Answers(r) == code[r] = 0 /\ code'[r] # 0

(***************************************************************************)
(* C1.  No two stored bookings on the same room and date overlap: for any  *)
(* two stored bookings with equal roomId and date, the later one, taken    *)
(* as candidate, does not overlap the earlier one.                         *)
(***************************************************************************)
C1_NoOverlappingBookings ==
    \A i, j \in 1..Len(bookings) :
        (i < j /\ SameSlot(bookings[i].doc, bookings[j].doc))
            => ~IsOverlapping(bookings[j].doc, bookings[i].doc)

(***************************************************************************)
(* C2.  Of the BookRoom requests of a run that all ask for the same room   *)
(* and date with pairwise overlapping intervals, once all are answered     *)
(* and none met a store failure, exactly one got 201 and the others 400.   *)
(***************************************************************************)
PairwiseOverlapping(S) ==
    \A r, q \in S :
        r # q => /\ SameSlot(body[r], body[q])
                 /\ IsOverlapping(body[r], body[q])

C2_ExactlyOneAdmitted ==
    (/\ Cardinality(BookReqs) >= 2
     /\ PairwiseOverlapping(BookReqs)
     /\ \A r \in BookReqs : code[r] \in {201, 400})
        => /\ Cardinality({r \in BookReqs : code[r] = 201}) = 1
           /\ Cardinality({r \in BookReqs : code[r] = 400})
                  = Cardinality(BookReqs) - 1

(***************************************************************************)
(* C3.  The conflict query of a BookRoom request answers 400 exactly when  *)
(* the store then holds a booking on the same roomId and date that the     *)
(* request overlaps; no other step answers 400.                            *)
(***************************************************************************)
ConflictStored(r) ==
    \E i \in 1..Len(bookings) :
        /\ bookings[i].doc.roomId = body[r].roomId
        /\ bookings[i].doc.date = body[r].date
        /\ IsOverlapping(body[r], bookings[i].doc)

C3_RejectedIffConflict ==
    [][\A r \in DOMAIN op :
          /\ (pc[r] = "findConflict" /\ pc'[r] # "findConflict"
                  /\ code'[r] # 500)
                 => (code'[r] = 400 <=> ConflictStored(r))
          /\ (Answers(r) /\ code'[r] = 400) => pc[r] = "findConflict"]_vars

\* a rejected request, and one admitted although the store holds an
\* overlapping booking of the same room on another date
C3_Witness ==
    \E r, q \in BookReqs :
        /\ code[r] = 400
        /\ code[q] = 201
        /\ \E i \in 1..Len(bookings) :
              /\ bookings[i].doc.roomId = body[q].roomId
              /\ bookings[i].doc.date # body[q].date
              /\ IsOverlapping(body[q], bookings[i].doc)

(***************************************************************************)
(* C4.  Sequential execution.  When the conflict query of a request runs   *)
(* and the store holds a booking (s, e), s < e, on the same room and date: *)
(* a request whose start equals e is answered 400; a request whose start   *)
(* is greater than e and whose end is not before its start goes on to the  *)
(* insert when that booking is the only one on the room and date, and the  *)
(* insert stores it and answers 201.                                       *)
(***************************************************************************)
OnlyBookingOfSlot(i) ==
    \A j \in 1..Len(bookings) :
        SameSlot(bookings[j].doc, bookings[i].doc) => j = i

C4_BackToBack ==
    [][\A r \in DOMAIN op :
          /\ (pc[r] = "findConflict" /\ pc'[r] # "findConflict")
                 => \A i \in 1..Len(bookings) :
                       LET b == bookings[i].doc
                       IN  (b.start < b.end /\ SameSlot(b, body[r]))
                               => /\ body[r].start = b.end => code'[r] = 400
                                  /\ (/\ body[r].start > b.end
                                      /\ body[r].end >= body[r].start
                                      /\ OnlyBookingOfSlot(i))
                                         => /\ pc'[r] = "insertBooking"
                                            /\ code'[r] = 0
          /\ (pc[r] = "insertBooking" /\ pc'[r] # "insertBooking")
                 => /\ code'[r] = 201
                    /\ bookings' = Append(bookings, bookings'[Len(bookings')])
                    /\ bookings'[Len(bookings')].doc = body[r]]_vars

\* a booking (s, e) with s < e, a rejected request starting at e and an
\* admitted one starting after e, all on one room and date
C4_Witness ==
    \E i \in 1..Len(bookings) : \E r, q \in BookReqs :
        LET b == bookings[i].doc
        IN  /\ b.start < b.end
            /\ SameSlot(b, body[r]) /\ SameSlot(b, body[q])
            /\ body[r].start = b.end /\ code[r] = 400
            /\ body[q].start > b.end /\ code[q] = 201

(***************************************************************************)
(* C5.  The step that answers 400 leaves both collections as they are,     *)
(* and an answered request takes no further step.                          *)
(***************************************************************************)
C5_ConflictLeavesStore ==
    [][\A r \in DOMAIN op :
          /\ (Answers(r) /\ code'[r] = 400)
                 => rooms' = rooms /\ bookings' = bookings
          /\ pc[r] = "done" => pc'[r] = "done" /\ code'[r] = code[r]]_vars

\* a request was answered 400 and the store holds the one booking it
\* collided with
C5_Witness ==
    \E r \in BookReqs : code[r] = 400 /\ Len(bookings) = 1 /\ rooms = <<>>

(***************************************************************************)
(* C6.  The step that answers a BookRoom request with 201 appends exactly  *)
(* one booking, whose fields are those of the request body, keeps every    *)
(* booking stored before in place and leaves the rooms unchanged.          *)
(***************************************************************************)
C6_AdmissionAppendsOne ==
    [][\A r \in DOMAIN op :
          (op[r] = "BookRoom" /\ Answers(r) /\ code'[r] = 201)
              => /\ rooms' = rooms
                 /\ Len(bookings') = Len(bookings) + 1
                 /\ SubSeq(bookings', 1, Len(bookings)) = bookings
                 /\ LET d == bookings'[Len(bookings')].doc
                    IN  /\ d.roomId = body[r].roomId
                        /\ d.date = body[r].date
                        /\ d.start = body[r].start
                        /\ d.end = body[r].end
                        /\ d.customerName = body[r].customerName
                        /\ d.status = body[r].status]_vars

\* an admitted request whose booking was stored behind an earlier one,
\* with a room registered
C6_Witness ==
    \E r \in BookReqs :
        /\ code[r] = 201
        /\ Len(bookings) = 2
        /\ bookings[2].doc = body[r]
        /\ Len(rooms) = 1

(***************************************************************************)
(* C7.  A record is in the store exactly when its request was answered     *)
(* 201: for every body, the stored documents holding it are as many as     *)
(* the requests that sent it and got 201.  So a request answered 500 (or   *)
(* 400, or not yet answered) has written nothing, and none answered 201    *)
(* lacks its record.                                                       *)
(***************************************************************************)
Stored(coll, b) == Cardinality({i \in 1..Len(coll) : coll[i].doc = b})
Created(o, b) ==
    Cardinality({r \in DOMAIN op : op[r] = o /\ body[r] = b /\ code[r] = 201})

Docs(coll) == {coll[i].doc : i \in 1..Len(coll)}
Answered201(o) == {body[r] : r \in {q \in DOMAIN op : op[q] = o /\ code[q] = 201}}

C7_WrittenIffCreated ==
    /\ \A b \in Docs(bookings) \cup Answered201("BookRoom") :
          Stored(bookings, b) = Created("BookRoom", b)
    /\ \A b \in Docs(rooms) \cup Answered201("CreateRoom") :
          Stored(rooms, b) = Created("CreateRoom", b)
    /\ \A r \in DOMAIN op : code[r] \in {0, 200, 201, 400, 500}

\* a store call of a BookRoom request and one of a CreateRoom request threw,
\* both were answered 500, and a third request stored its record
C7_Witness ==
    \E r, q, w \in DOMAIN op :
        /\ op[r] = "BookRoom" /\ body[r] # NoBody /\ code[r] = 500
        /\ op[q] = "CreateRoom" /\ body[q] # NoBody /\ code[q] = 500
        /\ code[w] = 201

(***************************************************************************)
(* C8.  When the query of GetCustomerHistory returns, the request is       *)
(* answered 200 with exactly one row per stored booking of that customer   *)
(* name, carrying that booking's fields, and no other row; with no such    *)
(* booking the answer is 200 and empty.  No request is ever answered 404.  *)
(***************************************************************************)
BookingWithId(id) == CHOOSE b \in Range(bookings) : b.id = id

C8_CustomerHistory ==
    [][\A r \in DOMAIN op :
          /\ code'[r] # 404
          /\ (pc[r] = "findCustomer" /\ Answers(r) /\ code'[r] # 500)
                 => LET mine == {b \in Range(bookings) :
                                    b.doc.customerName = body[r].name}
                        rows == result'[r]
                    IN  /\ code'[r] = 200
                        /\ Len(rows) = Cardinality(mine)
                        /\ {rows[k].bookingId : k \in 1..Len(rows)}
                               = {b.id : b \in mine}
                        /\ \A k \in 1..Len(rows) :
                              LET b == BookingWithId(rows[k].bookingId)
                              IN  /\ rows[k].customerName = body[r].name
                                  /\ rows[k].roomName = b.doc.roomId
                                  /\ rows[k].date = b.doc.date
                                  /\ rows[k].startTime = b.doc.start
                                  /\ rows[k].endTime = b.doc.end
                                  /\ rows[k].bookingDate = b.doc.date
                                  /\ rows[k].bookingStatus = b.doc.status]_vars

\* two customers have a booking each and the history of one of them was
\* answered with one row
C8_Witness ==
    \E r \in DOMAIN op :
        /\ op[r] = "GetCustomerHistory"
        /\ code[r] = 200
        /\ Len(result[r]) = 1
        /\ Len(bookings) = 2
        /\ bookings[1].doc.customerName # bookings[2].doc.customerName

(***************************************************************************)
(* The joins of the two listings, on one state of the store.               *)
(***************************************************************************)
RECURSIVE Flatten(_)
Flatten(ss) == IF ss = <<>> THEN <<>> ELSE Head(ss) \o Flatten(Tail(ss))

JoinPairs ==
    {p \in (1..Len(rooms)) \X (1..Len(bookings)) :
        rooms[p[1]].doc.roomId = bookings[p[2]].doc.roomId}

RowsOfRoom(rm) ==
    LET bs == SelectSeq(bookings, LAMBDA b : b.doc.roomId = rm.doc.roomId)
    IN  [k \in 1..Len(bs) |->
            [roomName |-> rm.doc.name, roomId |-> rm.doc.roomId,
             bookedStatus |-> bs[k].doc.status,
             customerName |-> bs[k].doc.customerName, date |-> bs[k].doc.date,
             startTime |-> bs[k].doc.start, endTime |-> bs[k].doc.end]]

RowsOfBooking(b) ==
    LET rs == SelectSeq(rooms, LAMBDA rm : rm.doc.roomId = b.doc.roomId)
    IN  [k \in 1..Len(rs) |->
            [customerName |-> b.doc.customerName, roomName |-> rs[k].doc.name,
             date |-> b.doc.date, startTime |-> b.doc.start,
             endTime |-> b.doc.end]]

RoomJoin == Flatten([i \in 1..Len(rooms) |-> RowsOfRoom(rooms[i])])
CustomerJoin == Flatten([j \in 1..Len(bookings) |-> RowsOfBooking(bookings[j])])

\* request r is the latest one received: in a sequential run the store has
\* not changed since r was answered
Latest(r) ==
    /\ op[r] # "none"
    /\ pc[r] = "done"
    /\ \A q \in DOMAIN op : q > r => op[q] = "none"

(***************************************************************************)
(* C9.  Sequential execution.  ListRoomBookings is answered 200 with one   *)
(* row for every pair of a stored room and a stored booking of equal       *)
(* roomId, rooms in registry order and each room's bookings in store       *)
(* order, and no other row: a room without bookings gives no row, and k    *)
(* rooms sharing a roomId give k rows per booking on it.                   *)
(***************************************************************************)
C9_RoomListingIsJoin ==
    \A r \in DOMAIN op :
        (Latest(r) /\ op[r] = "ListRoomBookings")
            => /\ code[r] = 200
               /\ result[r] = RoomJoin
               /\ Len(result[r]) = Cardinality(JoinPairs)

\* two rooms of different names share the roomId of the one stored
\* booking, and the listing has two rows
C9_Witness ==
    \E r \in DOMAIN op :
        /\ Latest(r) /\ op[r] = "ListRoomBookings"
        /\ Len(rooms) = 2
        /\ rooms[1].doc.roomId = rooms[2].doc.roomId
        /\ rooms[1].doc.name # rooms[2].doc.name
        /\ Len(bookings) = 1
        /\ Len(result[r]) = 2

(***************************************************************************)
(* C10.  Sequential execution.  ListCustomerBookings is answered 200 with, *)
(* for each booking in store order, one row per stored room of equal       *)
(* roomId; a booking on a roomId no room has gives no row there and no     *)
(* row in ListRoomBookings, whose row count is the number of matching      *)
(* (room, booking) pairs; neither listing is answered with an error.       *)
(***************************************************************************)
Orphans ==
    {j \in 1..Len(bookings) :
        \A i \in 1..Len(rooms) : rooms[i].doc.roomId # bookings[j].doc.roomId}

C10_OrphansExcluded ==
    \A r \in DOMAIN op :
        /\ (Latest(r) /\ op[r] = "ListCustomerBookings")
               => /\ code[r] = 200
                  /\ result[r] = CustomerJoin
                  /\ Len(result[r]) = Cardinality(JoinPairs)
        /\ (Latest(r) /\ op[r] = "ListRoomBookings")
               => /\ code[r] = 200
                  /\ Len(result[r]) = Cardinality(JoinPairs)
                  /\ Orphans = 1..Len(bookings) => result[r] = <<>>

\* one booking on a registered room, one on a roomId no room has, and the
\* customer listing has the single row of the first
C10_Witness ==
    \E r \in DOMAIN op :
        /\ Latest(r) /\ op[r] = "ListCustomerBookings"
        /\ Len(bookings) = 2
        /\ Cardinality(Orphans) = 1
        /\ Len(result[r]) = 1

(***************************************************************************)
(* C11.  Sequential execution.  No step of a ListRoomBookings,             *)
(* ListCustomerBookings or GetCustomerHistory request changes the rooms    *)
(* or the bookings, and two answered requests of the same read operation   *)
(* with the same argument, with no request answered 201 between them,      *)
(* carry the same status and the same rows.                                *)
(***************************************************************************)
ReadOps == {"ListRoomBookings", "ListCustomerBookings", "GetCustomerHistory"}

\* request r takes a step
Steps(r) == op'[r] # op[r] \/ pc'[r] # pc[r] \/ idx'[r] # idx[r]

\* no request from r to q added a record
NoWriteBetween(r, q) ==
    \A w \in DOMAIN op : (r < w /\ w < q) => code[w] # 201

C11_ReadsLeaveStore ==
    /\ [][\A r \in DOMAIN op :
             (op'[r] \in ReadOps /\ Steps(r))
                 => rooms' = rooms /\ bookings' = bookings]_vars
    /\ [](\A r, q \in DOMAIN op :
             (/\ r < q
              /\ op[r] \in ReadOps /\ op[q] = op[r] /\ body[q] = body[r]
              /\ pc[r] = "done" /\ pc[q] = "done"
              /\ NoWriteBetween(r, q))
                 => code[q] = code[r] /\ result[q] = result[r])

\* a customer history with a row, a rejected booking, and the same history
\* again
C11_Witness ==
    \E r, w, q \in DOMAIN op :
        /\ r < w /\ w < q
        /\ op[r] = "GetCustomerHistory" /\ op[q] = op[r]
        /\ body[q] = body[r]
        /\ code[w] = 400
        /\ pc[q] = "done"
        /\ NoWriteBetween(r, q)
        /\ Len(result[q]) = 1

(***************************************************************************)
(* C12.  The collections only grow at the end: every step of every run     *)
(* keeps each stored room and each stored booking at its place with its    *)
(* identifier and all its fields.                                          *)
(***************************************************************************)
IsPrefix(s, t) == Len(s) <= Len(t) /\ SubSeq(t, 1, Len(s)) = s

C12_AppendOnly ==
    [][IsPrefix(rooms, rooms') /\ IsPrefix(bookings, bookings')]_vars

\* a second room of an already stored roomId was stored behind the first,
\* which is still there, and so is the booking made on that roomId
C12_Witness ==
    /\ Len(rooms) = 2 /\ Len(bookings) = 1
    /\ rooms[1].doc.roomId = rooms[2].doc.roomId
    /\ rooms[1].doc # rooms[2].doc
    /\ bookings[1].doc.roomId = rooms[1].doc.roomId

(***************************************************************************)
(* C13.  BookRoom does not consult the rooms.  For a request whose roomId  *)
(* no stored room has, as for any other: the conflict query answers 400    *)
(* when a conflicting booking is stored and otherwise goes on to the       *)
(* insert, and the insert stores the request's document and answers 201.   *)
(* The outcome is a function of the stored bookings and the request alone. *)
(***************************************************************************)
NoSuchRoom(r) ==
    \A i \in 1..Len(rooms) : rooms[i].doc.roomId # body[r].roomId

\* what the handler of r does next when its store call succeeds, from the
\* stored bookings and the request only
Outcome(r) ==
    IF pc[r] = "findConflict"
    THEN IF ConflictStored(r) THEN "SlotConflict" ELSE "insert"
    ELSE "success"

\* what the step of r did
Observed(r) ==
    IF code'[r] = 400 THEN "SlotConflict"
    ELSE IF code'[r] = 201 /\ bookings' = InsertOne(bookings, body[r])
         THEN "success"
    ELSE IF code'[r] = 0 /\ pc'[r] = "insertBooking" /\ bookings' = bookings
         THEN "insert"
    ELSE "other"

C13_RegistryNotConsulted ==
    [][\A r \in DOMAIN op :
          (/\ pc[r] \in {"findConflict", "insertBooking"}
           /\ pc'[r] # pc[r]
           /\ code'[r] # 500)
              => /\ Observed(r) = Outcome(r)
                 /\ rooms' = rooms]_vars

\* with a room of another roomId registered, a booking on a roomId no room
\* has was admitted and a second, conflicting one was rejected
C13_Witness ==
    \E r, q \in BookReqs :
        /\ rooms # <<>>
        /\ NoSuchRoom(r) /\ NoSuchRoom(q)
        /\ code[r] = 201
        /\ code[q] = 400

(***************************************************************************)
(* C14.  Against an available store every CreateRoom request, whatever     *)
(* its body, reaches the insert, and the insert answers 201, appends       *)
(* exactly one room whose document is the request body (a roomId some      *)
(* stored room already has, a missing roomId, a missing name included)     *)
(* and leaves the bookings unchanged.                                      *)
(***************************************************************************)
C14_CreateRoomAlwaysAdds ==
    [][\A r \in DOMAIN op :
          /\ (op[r] = "none" /\ op'[r] = "CreateRoom")
                 => pc'[r] = "insertRoom" /\ code'[r] = 0
          /\ (op[r] = "CreateRoom" /\ pc'[r] # pc[r])
                 => /\ code'[r] = 201
                    /\ Len(rooms') = Len(rooms) + 1
                    /\ SubSeq(rooms', 1, Len(rooms)) = rooms
                    /\ rooms'[Len(rooms')].doc = body[r]
                    /\ bookings' = bookings]_vars

\* with a booking stored: two rooms of one roomId, a room without roomId
\* and a room without name
C14_Witness ==
    /\ bookings # <<>>
    /\ \E i, j, k, l \in 1..Len(rooms) :
          /\ i < j
          /\ rooms[i].doc.roomId # Undefined
          /\ rooms[i].doc.roomId = rooms[j].doc.roomId
          /\ rooms[k].doc.roomId = Undefined
          /\ rooms[l].doc.name = Undefined

(***************************************************************************)
(* C15 as stated.  Sequential execution, start and end arbitrary: no two   *)
(* distinct stored bookings on one roomId and date satisfy the overlap     *)
(* predicate, whichever is taken as candidate and whichever as existing.   *)
(***************************************************************************)
C15_NoOverlapEitherOrder ==
    \A i, j \in 1..Len(bookings) :
        (i # j /\ SameSlot(bookings[i].doc, bookings[j].doc))
            => ~IsOverlapping(bookings[i].doc, bookings[j].doc)

(***************************************************************************)
(* C15.  Sequential execution, start and end arbitrary: of two stored      *)
(* bookings on one roomId and date, the one stored later, taken as         *)
(* candidate, does not overlap the one stored earlier; and when the one    *)
(* stored later has start <= end, the earlier one taken as candidate does  *)
(* not overlap it either.                                                  *)
(***************************************************************************)
C15_NoOverlapAsAdmitted ==
    \A i, j \in 1..Len(bookings) :
        (i < j /\ SameSlot(bookings[i].doc, bookings[j].doc))
            => /\ ~IsOverlapping(bookings[j].doc, bookings[i].doc)
               /\ bookings[j].doc.start <= bookings[j].doc.end
                      => ~IsOverlapping(bookings[i].doc, bookings[j].doc)

\* on one room and date: a booking with start > end stored behind another
\* booking, and a booking with start <= end stored behind one with
\* start > end
C15_Witness ==
    \E i, j, k, l \in 1..Len(bookings) :
        /\ i < j /\ SameSlot(bookings[i].doc, bookings[j].doc)
        /\ bookings[j].doc.start > bookings[j].doc.end
        /\ k < l /\ SameSlot(bookings[k].doc, bookings[l].doc)
        /\ bookings[k].doc.start > bookings[k].doc.end
        /\ bookings[l].doc.start <= bookings[l].doc.end

(***************************************************************************)
(* The joins of the two listings on given collections.                     *)
(***************************************************************************)
RoomJoinOn(rs, bs) ==
    Flatten([i \in 1..Len(rs) |->
        LET mine == SelectSeq(bs, LAMBDA b : b.doc.roomId = rs[i].doc.roomId)
        IN  [k \in 1..Len(mine) |->
                [roomName |-> rs[i].doc.name, roomId |-> rs[i].doc.roomId,
                 bookedStatus |-> mine[k].doc.status,
                 customerName |-> mine[k].doc.customerName,
                 date |-> mine[k].doc.date,
                 startTime |-> mine[k].doc.start,
                 endTime |-> mine[k].doc.end]]])

CustomerJoinOn(rs, bs) ==
    Flatten([j \in 1..Len(bs) |->
        LET mine == SelectSeq(rs, LAMBDA rm : rm.doc.roomId = bs[j].doc.roomId)
        IN  [k \in 1..Len(mine) |->
                [customerName |-> bs[j].doc.customerName,
                 roomName |-> mine[k].doc.name,
                 date |-> bs[j].doc.date,
                 startTime |-> bs[j].doc.start,
                 endTime |-> bs[j].doc.end]]])

\* The collections only grow at the end, so every state the store has been
\* in consists of a prefix of the present rooms and a prefix of the present
\* bookings.
Prefixes(s) == {SubSeq(s, 1, n) : n \in 0..Len(s)}

SnapshotOf(r) ==
    \E rs \in Prefixes(rooms) : \E bs \in Prefixes(bookings) :
        result[r] = IF op[r] = "ListRoomBookings"
                    THEN RoomJoinOn(rs, bs) ELSE CustomerJoinOn(rs, bs)

Listings == {"ListRoomBookings", "ListCustomerBookings"}

(***************************************************************************)
(* C16 as stated.  The rows of a listing answered 200 while CreateRoom     *)
(* and BookRoom requests run are the join on one state the store has been  *)
(* in.                                                                     *)
(***************************************************************************)
C16_ListingIsSnapshot ==
    \A r \in DOMAIN op :
        (op[r] \in Listings /\ code[r] = 200) => SnapshotOf(r)

(***************************************************************************)
(* C16.  A listing that runs while CreateRoom and BookRoom requests run    *)
(* is put together query by query: each inner query appends, for the room  *)
(* (booking) the outer loop is at, its join with the bookings (rooms)      *)
(* stored at that moment.  Every row of the answer pairs a room and a      *)
(* booking of equal roomId that are both stored when the answer is sent,   *)
(* in the order of the join on the store of that moment.                   *)
(***************************************************************************)
RECURSIVE IsSubsequence(_, _)
IsSubsequence(s, t) ==
    IF s = <<>> THEN TRUE
    ELSE IF t = <<>> THEN FALSE
    ELSE IF Head(s) = Head(t) THEN IsSubsequence(Tail(s), Tail(t))
    ELSE IsSubsequence(s, Tail(t))

C16_ListingRowsAreJoinRows ==
    [][\A r \in DOMAIN op :
          /\ (pc[r] = "findBookingsOfRoom" /\ Steps(r))
                 => result'[r] = result[r]
                        \o RoomJoinOn(<<outer[r][idx[r]]>>, bookings)
          /\ (pc[r] = "findRoomsOfBooking" /\ Steps(r))
                 => result'[r] = result[r]
                        \o CustomerJoinOn(rooms, <<outer[r][idx[r]]>>)
          /\ (op[r] = "ListRoomBookings" /\ Answers(r))
                 => code'[r] = 200 /\ IsSubsequence(result'[r], RoomJoin')
          /\ (op[r] = "ListCustomerBookings" /\ Answers(r))
                 => code'[r] = 200
                        /\ IsSubsequence(result'[r], CustomerJoin')]_vars

\* no two stored bookings overlap, and a listing was answered with rows
\* although the store has been in no state whose join is those rows
C16_Witness ==
    /\ C1_NoOverlappingBookings
    /\ \E r \in DOMAIN op :
          /\ op[r] \in Listings
          /\ code[r] = 200
          /\ result[r] # <<>>
          /\ ~SnapshotOf(r)

(***************************************************************************)
(* C17.  Requests are received whatever the state of the connection.  One  *)
(* received while the collection handles are not set (connecting, or the   *)
(* connection failed) is answered 500 in that step and the step writes     *)
(* nothing; while the handles are not set the store stays empty.  Once     *)
(* the handles are set they stay set, and a request received from then on  *)
(* is not answered on arrival but goes on to its first store call.         *)
(***************************************************************************)
FirstCall(o) ==
    CASE o = "CreateRoom" -> "insertRoom"
      [] o = "BookRoom" -> "findConflict"
      [] o = "ListRoomBookings" -> "findRooms"
      [] o = "ListCustomerBookings" -> "findBookings"
      [] o = "GetCustomerHistory" -> "findCustomer"

C17_NoHandlesNoService ==
    /\ [][/\ conn = "connected" => conn' = "connected"
          /\ \A r \in DOMAIN op :
                (op[r] = "none" /\ op'[r] # "none")
                    => IF conn = "connected"
                       THEN pc'[r] = FirstCall(op'[r]) /\ code'[r] = 0
                       ELSE /\ pc'[r] = "done" /\ code'[r] = 500
                            /\ rooms' = rooms /\ bookings' = bookings]_vars
    /\ [](conn # "connected" => rooms = <<>> /\ bookings = <<>>)

\* a booking request received before the connection completed was answered
\* 500, and one received afterwards was stored and answered 201
C17_Witness ==
    \E r, q \in DOMAIN op :
        /\ r < q
        /\ op[r] = "BookRoom" /\ body[r] = NoBody /\ code[r] = 500
        /\ op[q] = "BookRoom" /\ code[q] = 201
        /\ Len(bookings) = 1

(***************************************************************************)
(* C18.  With progress, every received request is eventually answered;     *)
(* an answered request is never answered again (its status and rows stay)  *)
(* and its handler takes no further step; and the status is one of 201,    *)
(* 400, 500 for BookRoom, 201, 500 for CreateRoom and 200, 500 for the     *)
(* three read operations.                                                  *)
(***************************************************************************)
StatusesOf(o) ==
    CASE o = "BookRoom" -> {201, 400, 500}
      [] o = "CreateRoom" -> {201, 500}
      [] o \in ReadOps -> {200, 500}
      [] OTHER -> {}

C18_ExactlyOneResponse ==
    /\ \A r \in LiveReqs : (op[r] # "none") ~> (code[r] # 0)
    /\ [][\A r \in DOMAIN op :
             code[r] # 0 => /\ code'[r] = code[r]
                            /\ result'[r] = result[r]
                            /\ pc'[r] = "done"]_vars
    /\ [](\A r \in DOMAIN op :
             /\ code[r] # 0 => code[r] \in StatusesOf(op[r])
             /\ pc[r] = "done" <=> code[r] # 0)

\* every request of the run is answered: a listing with 200 and a booking
\* with 500 after its store call failed
C18_Witness ==
    /\ \A r \in DOMAIN op : code[r] # 0
    /\ \E r, q \in DOMAIN op :
          /\ op[r] = "ListRoomBookings" /\ code[r] = 200
          /\ op[q] = "BookRoom" /\ body[q] # NoBody /\ code[q] = 500

=============================================================================
